---------------------------- MODULE Spec2Model ----------------------------
(***************************************************************************)
(* webmcp-crawler (src/src/index.ts): the single-origin check pipeline     *)
(* checkUrl, the two drivers runSingle and runBatch, and the CSV           *)
(* serializer resultsToCsv.                                                *)
(*                                                                         *)
(* Strings are modelled as sequences of chunks.  A chunk is either one of  *)
(* the characters the code inspects individually (comma, double quote,     *)
(* line feed, carriage return, blank) or a run of ordinary characters that *)
(* the code never looks inside.  Concatenation of strings is \o.           *)
(***************************************************************************)
EXTENDS Integers, Sequences, FiniteSets, TLC

COMMA == ","
QUOTE == "\""
LF    == "\n"
CR    == "\r"
SP    == " "

(***************************************************************************)
(* Bounds of the model.                                                    *)
(***************************************************************************)
MaxUrls     == 3      \* longest origin list a batch run is given
MaxCsvRows  == 2      \* longest outcome list given to resultsToCsv alone
MaxFieldLen == 2      \* longest free-text field given to resultsToCsv alone
TicksPerTimeout == 2  \* clock steps that make up the request deadline

\* AbortSignal.timeout(10_000)
TIMEOUT_MS == 10000
TickMs == TIMEOUT_MS \div TicksPerTimeout

-----------------------------------------------------------------------------
(* Generic sequence helpers (Array.prototype.join, String.prototype.trim). *)

RECURSIVE JoinText(_, _)
\* Array.prototype.join on an array of strings, sep a string
JoinText(parts, sep) ==
  IF parts = <<>> THEN <<>>
  ELSE IF Len(parts) = 1 THEN parts[1]
  ELSE parts[1] \o sep \o JoinText(Tail(parts), sep)

IsSpace(c) == c \in {SP, "\t", LF, CR}

RECURSIVE TrimLeft(_)
TrimLeft(t) ==
  IF t # <<>> /\ IsSpace(Head(t)) THEN TrimLeft(Tail(t)) ELSE t

RECURSIVE TrimRight(_)
TrimRight(t) ==
  IF t # <<>> /\ IsSpace(t[Len(t)]) THEN TrimRight(SubSeq(t, 1, Len(t) - 1)) ELSE t

Trim(t) == TrimRight(TrimLeft(t))

-----------------------------------------------------------------------------
(* normalizeUrl.  The chunk vocabulary of origin strings: blanks, a scheme *)
(* chunk, a host chunk, a path chunk, and a chunk holding a blank inside   *)
(* (no valid host).  new URL() removes tab/LF/CR anywhere in its input,    *)
(* lower-cases scheme and host, and throws when no valid host follows the  *)
(* scheme.                                                                 *)

Lower(c) ==
  CASE c = "HTTP://"     -> "http://"
    [] c = "HTTPS://"    -> "https://"
    [] c = "Example.com" -> "example.com"
    [] OTHER             -> c

IsScheme(c) == Lower(c) \in {"http://", "https://"}
IsHost(c)   == Lower(c) \in {"example.com", "stripe.com", "github.com"}
IsPath(c)   == c \in {"/path", "/"}

\* url after trim and scheme insertion (index.ts 106-109)
WithScheme(input) ==
  LET url == Trim(input)
  IN IF url # <<>> /\ IsScheme(url[1]) THEN url ELSE <<"https://">> \o url

NotStripped(c) == c \notin {"\t", LF, CR}

\* what new URL(url) sees after removing tab and newline characters
UrlInput(input) == SelectSeq(WithScheme(input), NotStripped)

\* new URL(url) does not throw
UrlParses(input) ==
  LET u == UrlInput(input)
  IN /\ Len(u) >= 2
     /\ IsScheme(u[1])
     /\ IsHost(u[2])
     /\ \A k \in 3..Len(u) : IsPath(u[k])

\* parsed.origin, defined when UrlParses(input)
normalizeUrl(input) ==
  LET u == UrlInput(input)
  IN <<Lower(u[1]), Lower(u[2])>>

-----------------------------------------------------------------------------
(* The WebMCP schema and the validator compiled from it (ajv, allErrors).  *)
(* A JSON document is a record: its JSON type, its root keys in document   *)
(* order, and the values of the root properties the schema constrains.     *)
(* A tool is its keys and its name (a sequence of characters).  Values of  *)
(* properties that are not modelled are taken to have the right type.      *)

SchemaRequired == <<"manifest_version", "origin", "updated_at", "tools">>
SchemaProperties ==
  {"manifest_version", "origin", "updated_at", "tools", "auth", "attestation"}
ToolRequired ==
  <<"name", "description", "version", "tags", "risk_level",
    "requires_user_confirm", "input_schema", "output_schema">>
ToolProperties ==
  {"name", "description", "version", "tags", "risk_level",
   "requires_user_confirm", "input_schema", "output_schema", "pricing"}

LowerAlpha ==
  {"a", "b", "c", "d", "e", "f", "g", "h", "i", "j", "k", "l", "m",
   "n", "o", "p", "q", "r", "s", "t", "u", "v", "w", "x", "y", "z"}
NameRest == LowerAlpha \cup {"0", "1", "2", "3", "4", "5", "6", "7", "8", "9", "_"}

\* pattern ^[a-z][a-z0-9_]*$
NamePattern(name) ==
  /\ name # <<>>
  /\ name[1] \in LowerAlpha
  /\ \A k \in 2..Len(name) : name[k] \in NameRest

\* pattern ^https?://
OriginPattern(origin) == origin # <<>> /\ origin[1] \in {"http://", "https://"}

\* format date-time (ajv-formats)
IsDateTime(s) == s \in {"2025-01-01T00:00:00Z"}

Range(s) == {s[k] : k \in DOMAIN s}

\* one error per required property that is missing: `<path> must have required property '<p>'`
MissingErrors(path, keys, required) ==
  LET miss == SelectSeq(required, LAMBDA p : p \notin Range(keys))
  IN [k \in 1..Len(miss) |-> <<path \o " must have required property '" \o miss[k] \o "'">>]

\* one error per key the schema does not declare
AdditionalErrors(path, keys, props) ==
  LET extra == SelectSeq(keys, LAMBDA p : p \notin props)
  IN [k \in 1..Len(extra) |-> <<path \o " must NOT have additional properties">>]

\* errors of tools[idx] (idx counted from 0 as in the instance path)
ToolErrors(tool, idx) ==
  LET path == "/tools/" \o ToString(idx)
  IN MissingErrors(path, tool.keys, ToolRequired)
     \o AdditionalErrors(path, tool.keys, ToolProperties)
     \o (IF "name" \in Range(tool.keys) /\ ~NamePattern(tool.name)
         THEN << <<path \o "/name must match pattern ", QUOTE, "^[a-z][a-z0-9_]*$", QUOTE>> >>
         ELSE <<>>)

RECURSIVE AllToolErrors(_, _)
AllToolErrors(tools, idx) ==
  IF idx >= Len(tools) THEN <<>>
  ELSE ToolErrors(tools[idx + 1], idx) \o AllToolErrors(tools, idx + 1)

\* validate.errors rendered as `${e.instancePath || "/"} ${e.message}`; <<>> iff validate(doc)
ValidateErrors(doc) ==
  IF doc.type # "object" THEN << <<"/ must be object">> >>
  ELSE
    MissingErrors("/", doc.keys, SchemaRequired)
    \o AdditionalErrors("/", doc.keys, SchemaProperties)
    \o (IF "manifest_version" \in Range(doc.keys) /\ doc.manifest_version # "0.1"
        THEN << <<"/manifest_version must be equal to one of the allowed values">> >>
        ELSE <<>>)
    \o (IF "origin" \in Range(doc.keys) /\ ~OriginPattern(doc.origin)
        THEN << <<"/origin must match pattern ", QUOTE, "^https?://", QUOTE>> >>
        ELSE <<>>)
    \o (IF "updated_at" \in Range(doc.keys) /\ ~IsDateTime(doc.updated_at)
        THEN << <<"/updated_at must match format ", QUOTE, "date-time", QUOTE>> >>
        ELSE <<>>)
    \o (IF "tools" \in Range(doc.keys)
        THEN (IF Len(doc.tools) < 1
              THEN << <<"/tools must NOT have fewer than 1 items">> >>
              ELSE <<>>)
             \o AllToolErrors(doc.tools, 0)
        ELSE <<>>)

validate(doc) == ValidateErrors(doc) = <<>>

-----------------------------------------------------------------------------
(* CheckResult records built by the return statements of checkUrl.         *)

NoText == <<>>

\* index.ts 143-151
InvalidUrlResult(raw) ==
  [url |-> raw, detected |-> FALSE, valid |-> FALSE, version |-> NoText,
   toolCount |-> 0, toolNames |-> NoText, error |-> <<"Invalid URL">>]

\* err instanceof Error ? err.message : "Unknown network error"
ErrMessage(err) == IF err.isError THEN err.message ELSE <<"Unknown network error">>

\* index.ts 165-173
NetworkErrorResult(org, err) ==
  [url |-> org, detected |-> FALSE, valid |-> FALSE, version |-> NoText,
   toolCount |-> 0, toolNames |-> NoText, error |-> ErrMessage(err)]

\* index.ts 177-185
HttpErrorResult(org, status) ==
  [url |-> org, detected |-> FALSE, valid |-> FALSE, version |-> NoText,
   toolCount |-> 0, toolNames |-> NoText, error |-> <<"HTTP ", ToString(status)>>]

\* index.ts 192-200
InvalidJsonResult(org) ==
  [url |-> org, detected |-> FALSE, valid |-> FALSE, version |-> NoText,
   toolCount |-> 0, toolNames |-> NoText, error |-> <<"Invalid JSON">>]

\* InvalidManifestResult reporting the version of the rejected document
InvalidManifestKeepsVersion(org, doc) ==
  [url |-> org, detected |-> TRUE, valid |-> FALSE, version |-> <<doc.manifest_version>>,
   toolCount |-> 0, toolNames |-> NoText,
   error |-> <<"Invalid manifest: ">> \o JoinText(ValidateErrors(doc), <<"; ">>)]

\* index.ts 209-217
InvalidManifestResult(org, doc) ==
  [url |-> org, detected |-> TRUE, valid |-> FALSE, version |-> NoText,
   toolCount |-> 0, toolNames |-> NoText,
   error |-> <<"Invalid manifest: ">> \o JoinText(ValidateErrors(doc), <<"; ">>)]

\* index.ts 226-234
ValidResult(org, doc) ==
  [url |-> org, detected |-> TRUE, valid |-> TRUE,
   version |-> <<doc.manifest_version>>,
   toolCount |-> Len(doc.tools),
   toolNames |-> JoinText([k \in 1..Len(doc.tools) |-> doc.tools[k].name], <<"; ">>),
   error |-> NoText]

\* index.ts 203-234: the part of checkUrl after the body has been parsed
ManifestResult(org, doc) ==
  IF ~validate(doc) THEN InvalidManifestResult(org, doc) ELSE ValidResult(org, doc)

\* response.ok
ResponseOk(status) == status >= 200 /\ status <= 299

-----------------------------------------------------------------------------
(* CSV output.                                                             *)

Includes(value, c) == \E k \in DOMAIN value : value[k] = c

RECURSIVE DoubleQuotes(_)
\* value.replace(/"/g, '""')
DoubleQuotes(value) ==
  IF value = <<>> THEN <<>>
  ELSE (IF Head(value) = QUOTE THEN <<QUOTE, QUOTE>> ELSE <<Head(value)>>)
       \o DoubleQuotes(Tail(value))

escapeCsvField(value) ==
  IF Includes(value, COMMA) \/ Includes(value, QUOTE) \/ Includes(value, LF)
  THEN <<QUOTE>> \o DoubleQuotes(value) \o <<QUOTE>>
  ELSE value

CsvHeader ==
  <<"url", COMMA, "detected", COMMA, "valid", COMMA, "version", COMMA,
    "tool_count", COMMA, "tool_names", COMMA, "error">>

BoolText(b) == IF b THEN <<"true">> ELSE <<"false">>
NumText(n) == <<ToString(n)>>

\* one element of `rows` (index.ts 266-275)
CsvRow(r) ==
  JoinText(<<escapeCsvField(r.url), BoolText(r.detected), BoolText(r.valid),
             escapeCsvField(r.version), NumText(r.toolCount),
             escapeCsvField(r.toolNames), escapeCsvField(r.error)>>, <<COMMA>>)

resultsToCsv(rs) ==
  JoinText(<<CsvHeader>> \o [k \in 1..Len(rs) |-> CsvRow(rs[k])], <<LF>>) \o <<LF>>

-----------------------------------------------------------------------------
(* The inputs and the environment's answers the model draws from.          *)

\* " HTTP://Example.com/path " : normalizes to http://example.com
RawHttpPath == <<SP, "HTTP://", "Example.com", "/path", SP>>
\* "example.com" : normalizes to https://example.com
RawBare == <<"example.com">>
\* "a b\rc" : a host with a blank in it, new URL throws
RawBad == <<"a b", CR, "c">>
RawInputs == {RawHttpPath, RawBare, RawBad}

ToolDoc(name) == [keys |-> ToolRequired, name |-> name]

\* a conformant manifest with one tool
BaseDoc ==
  [type |-> "object", keys |-> SchemaRequired, manifest_version |-> "0.1",
   origin |-> <<"https://", "example.com">>, updated_at |-> "2025-01-01T00:00:00Z",
   tools |-> <<ToolDoc(<<"g", "e", "t">>)>>]
\* a conformant manifest with three tools
Doc3 ==
  [BaseDoc EXCEPT !.tools = <<ToolDoc(<<"g", "e", "t">>), ToolDoc(<<"p", "u", "t", "_", "1">>),
                              ToolDoc(<<"d", "e", "l">>)>>]
\* a tool name starting with an upper-case letter
DocBadName == [BaseDoc EXCEPT !.tools = <<ToolDoc(<<"G", "e", "t">>)>>]
\* the JSON value null
NullDoc ==
  [type |-> "null", keys |-> <<>>, manifest_version |-> "", origin |-> <<>>,
   updated_at |-> "", tools |-> <<>>]
Docs == {Doc3, DocBadName}

\* a response body: whether JSON.parse accepts it, and the value it parses to
NotJson == [parses |-> FALSE, doc |-> NullDoc]
Bodies == {NotJson} \cup {[parses |-> TRUE, doc |-> d] : d \in Docs}

Statuses == {200, 404}
Responses == [status : Statuses, body : Bodies]
NoResponse == [status |-> 0, body |-> NotJson]

\* values thrown by fetch() and by response.json()
NoErr == [isError |-> FALSE, name |-> "none", message |-> <<>>]
FetchFailed == [isError |-> TRUE, name |-> "TypeError", message |-> <<"fetch failed">>]
TimeoutErr ==
  [isError |-> TRUE, name |-> "TimeoutError",
   message |-> <<"The operation was aborted due to timeout">>]
SyntaxErr == [isError |-> TRUE, name |-> "SyntaxError", message |-> <<"Unexpected token">>]
BodyErr == [isError |-> TRUE, name |-> "TypeError", message |-> <<"terminated">>]

NoResult ==
  [url |-> NoText, detected |-> FALSE, valid |-> FALSE, version |-> NoText,
   toolCount |-> 0, toolNames |-> NoText, error |-> NoText]

RECURSIVE SeqsUpTo(_, _)
\* the sequences over S of length at most n
SeqsUpTo(S, n) ==
  IF n = 0 THEN {<<>>}
  ELSE LET shorter == SeqsUpTo(S, n - 1)
       IN shorter \cup {Append(q, x) : q \in {r \in shorter : Len(r) = n - 1}, x \in S}

\* the input file of a batch run: unreadable, or the origins parseCsvUrls returns
Files ==
  {[readable |-> FALSE, urls |-> <<>>]}
  \cup {[readable |-> TRUE, urls |-> u] : u \in SeqsUpTo(RawInputs, MaxUrls)}
NoFile == [readable |-> FALSE, urls |-> <<>>]

-----------------------------------------------------------------------------
VARIABLES
  mode,      \* "single" or "batch" (main, index.ts 403-422)
  input,     \* args[0] of a single run
  file,      \* the input file of a batch run
  pc,        \* where the run is: start, call, fetch, json, returned, write, exited
  urls,      \* runBatch: urls
  i,         \* runBatch: loop index, counted from 1; 1 in a single run
  results,   \* runBatch: results
  detected,  \* runBatch: detected
  origin,    \* checkUrl: origin
  response,  \* checkUrl: response
  fetchErr,  \* checkUrl: the value fetch() rejected with
  jsonErr,   \* checkUrl: the value response.json() rejected with
  result,    \* the CheckResult checkUrl returned last
  elapsed,   \* milliseconds since the request started
  inflight,  \* requests issued and not yet settled for the program
  issued,    \* requests issued per entry
  progress,  \* the progress lines printed by runBatch
  written,   \* whether the output file was written
  outFile,   \* the text of the output file
  exitCode,  \* the process exit code, -1 while running
  uncaught   \* the statement whose exception nothing caught, "none" if there is none

vars ==
  <<mode, input, file, pc, urls, i, results, detected, origin, response, fetchErr,
    jsonErr, result, elapsed, inflight, issued, progress, written, outFile, exitCode,
    uncaught>>

checkVars == <<origin, response, fetchErr, jsonErr, result, elapsed, inflight, issued>>
batchVars == <<urls, i, results, detected, progress, written, outFile>>
argVars == <<mode, input, file>>

Init ==
  /\ \/ mode = "single" /\ input \in RawInputs /\ file = NoFile
     \/ mode = "batch" /\ input = NoText /\ file \in Files
  /\ pc = "start"
  /\ urls = <<>>
  /\ i = 1
  /\ results = <<>>
  /\ detected = 0
  /\ origin = NoText
  /\ response = NoResponse
  /\ fetchErr = NoErr
  /\ jsonErr = NoErr
  /\ result = NoResult
  /\ elapsed = 0
  /\ inflight = 0
  /\ issued = [k \in 1..MaxUrls |-> 0]
  /\ progress = <<>>
  /\ written = FALSE
  /\ outFile = NoText
  /\ exitCode = -1
  /\ uncaught = "none"

\* process.exit(code)
Exit(code) == pc' = "exited" /\ exitCode' = code

\* the raw string the current checkUrl call was given
CurrentInput == IF mode = "single" THEN input ELSE urls[i]

-----------------------------------------------------------------------------
(* checkUrl.  Its awaits (fetch, response.json) are where the environment  *)
(* answers; each action runs the code from one await to the next.          *)

\* `return` of checkUrl: the request, if any, is over for the program
Return(res, settled) ==
  /\ result' = res
  /\ pc' = "returned"
  /\ inflight' = inflight - settled
  /\ UNCHANGED <<exitCode, uncaught>>

\* index.ts 139-161: normalize, then either return at once or issue the request
CheckUrlBegin ==
  /\ pc = "call"
  /\ IF ~UrlParses(CurrentInput)
     THEN /\ Return(InvalidUrlResult(CurrentInput), 0)
          /\ UNCHANGED <<origin, issued, elapsed>>
     ELSE /\ origin' = normalizeUrl(CurrentInput)
          /\ pc' = "fetch"
          /\ inflight' = inflight + 1
          /\ issued' = [issued EXCEPT ![i] = @ + 1]
          /\ elapsed' = 0
          /\ UNCHANGED <<result, exitCode, uncaught>>
  /\ response' = NoResponse
  /\ fetchErr' = NoErr
  /\ jsonErr' = NoErr
  /\ UNCHANGED <<argVars, batchVars>>

\* time passes while the request is pending
Tick ==
  /\ pc \in {"fetch", "json"}
  /\ elapsed < TIMEOUT_MS
  /\ elapsed' = elapsed + TickMs
  /\ UNCHANGED <<argVars, batchVars, pc, origin, response, fetchErr, jsonErr, result,
                 inflight, issued, exitCode, uncaught>>

\* FetchCatch retrying the request instead of returning
FetchCatchRetries(err) ==
  /\ fetchErr' = err
  /\ pc' = "call"
  /\ inflight' = inflight - 1
  /\ UNCHANGED <<result, response, jsonErr, exitCode, uncaught>>

\* FetchCatch with the catch missing: the rejection leaves checkUrl and ends the process
FetchCatchRethrows(err) ==
  /\ fetchErr' = err
  /\ uncaught' = "fetch"
  /\ Exit(1)
  /\ inflight' = inflight - 1
  /\ UNCHANGED <<result, response, jsonErr>>

\* index.ts 162-174: the catch around fetch()
FetchCatch(err) ==
  /\ fetchErr' = err
  /\ Return(NetworkErrorResult(origin, err), 1)
  /\ UNCHANGED <<response, jsonErr>>

\* FetchThen without the response.ok check
FetchThenIgnoresStatus(resp) ==
  /\ response' = resp
  /\ pc' = "json"
  /\ UNCHANGED <<result, inflight, exitCode, uncaught, fetchErr, jsonErr>>

\* index.ts 176-186 after fetch() resolved: the status check
FetchThen(resp) ==
  /\ response' = resp
  /\ IF ~ResponseOk(resp.status)
     THEN Return(HttpErrorResult(origin, resp.status), 1)
     ELSE pc' = "json" /\ UNCHANGED <<result, inflight, exitCode, uncaught>>
  /\ UNCHANGED <<fetchErr, jsonErr>>

\* index.ts 191-201: the catch around response.json()
JsonCatch(err) ==
  /\ jsonErr' = err
  /\ Return(InvalidJsonResult(origin), 1)
  /\ UNCHANGED <<response, fetchErr>>

\* index.ts 203-234 after response.json() resolved
JsonThen(doc) ==
  /\ Return(ManifestResult(origin, doc), 1)
  /\ UNCHANGED <<response, fetchErr, jsonErr>>

checkFrame == UNCHANGED <<argVars, batchVars, origin, elapsed, issued>>

\* the response's status line and headers arrive before the deadline
FetchResolve(resp) ==
  /\ pc = "fetch"
  /\ elapsed < TIMEOUT_MS
  /\ FetchThen(resp)
  /\ checkFrame

\* DNS, connection or TLS failure before the deadline
FetchReject(err) ==
  /\ pc = "fetch"
  /\ elapsed < TIMEOUT_MS
  /\ FetchCatch(err)
  /\ checkFrame

\* the deadline passes while fetch() is pending: the signal aborts it
FetchTimeout ==
  /\ pc = "fetch"
  /\ elapsed >= TIMEOUT_MS
  /\ FetchCatch(TimeoutErr)
  /\ checkFrame

\* the body arrives in full before the deadline and JSON.parse accepts it
JsonResolve ==
  /\ pc = "json"
  /\ elapsed < TIMEOUT_MS
  /\ response.body.parses
  /\ JsonThen(response.body.doc)
  /\ checkFrame

\* before the deadline, the body arrives and is no JSON (SyntaxError), or the
\* connection is lost while the body is read (TypeError)
JsonReject(err) ==
  /\ pc = "json"
  /\ elapsed < TIMEOUT_MS
  /\ err = SyntaxErr => ~response.body.parses
  /\ JsonCatch(err)
  /\ checkFrame

\* the deadline passes while the body is read: the signal aborts the body stream
\* and response.json() rejects with the timeout error
JsonTimeout ==
  /\ pc = "json"
  /\ elapsed >= TIMEOUT_MS
  /\ JsonCatch(TimeoutErr)
  /\ checkFrame

-----------------------------------------------------------------------------
(* runSingle and runBatch.                                                 *)

\* the locals of a checkUrl call that has returned are gone; its result stays in
\* the caller's `result`
DropCheckLocals ==
  /\ origin' = NoText
  /\ response' = NoResponse
  /\ fetchErr' = NoErr
  /\ jsonErr' = NoErr
  /\ elapsed' = 0
  /\ UNCHANGED <<result, inflight, issued>>

\* index.ts 283-293, up to the call of checkUrl
RunSingleStart ==
  /\ pc = "start"
  /\ mode = "single"
  /\ IF ~UrlParses(input) THEN Exit(1) ELSE pc' = "call" /\ UNCHANGED exitCode
  /\ UNCHANGED <<argVars, batchVars, checkVars, uncaught>>

\* RunSingleThen without the check of result.valid
RunSingleThenDetected ==
  /\ pc = "returned"
  /\ mode = "single"
  /\ Exit(IF ~result.detected THEN 1 ELSE 0)
  /\ DropCheckLocals
  /\ UNCHANGED <<argVars, batchVars, uncaught>>

\* index.ts 295-315, after checkUrl returned
RunSingleThen ==
  /\ pc = "returned"
  /\ mode = "single"
  /\ Exit(IF ~result.detected THEN 1 ELSE IF ~result.valid THEN 1 ELSE 0)
  /\ DropCheckLocals
  /\ UNCHANGED <<argVars, batchVars, uncaught>>

\* index.ts 321-341, up to the first call of checkUrl
RunBatchStart ==
  /\ pc = "start"
  /\ mode = "batch"
  /\ IF ~file.readable
     THEN Exit(1) /\ UNCHANGED urls
     ELSE /\ urls' = file.urls
          /\ IF Len(file.urls) = 0 THEN Exit(1) ELSE pc' = "call" /\ UNCHANGED exitCode
  /\ UNCHANGED <<argVars, i, results, detected, progress, written, outFile, checkVars,
                 uncaught>>

\* the progress line of index.ts 347-356
ProgressLine(idx, total, r) ==
  [idx |-> idx, total |-> total, url |-> r.url,
   mark |-> IF r.detected /\ r.valid THEN "valid"
            ELSE IF r.detected THEN "invalid manifest" ELSE "failed",
   tools |-> IF r.detected /\ r.valid THEN r.toolCount ELSE 0]

\* Counted counting every detected manifest, valid or not
CountedDetected(r) == IF r.detected THEN 1 ELSE 0

\* detected++ under the condition of index.ts 347
Counted(r) == IF r.detected /\ r.valid THEN 1 ELSE 0

\* RunBatchThen putting the new outcome in front (unshift instead of push)
RunBatchThenUnshift ==
  /\ pc = "returned"
  /\ mode = "batch"
  /\ results' = <<result>> \o results
  /\ detected' = detected + (IF result.detected /\ result.valid THEN 1 ELSE 0)
  /\ progress' = Append(progress, ProgressLine(i, Len(urls), result))
  /\ i' = i + 1
  /\ pc' = IF i + 1 <= Len(urls) THEN "call" ELSE "write"
  /\ DropCheckLocals
  /\ UNCHANGED <<argVars, urls, written, outFile, exitCode, uncaught>>

\* index.ts 345-357 and 340, after checkUrl returned: push, count, report, i++
RunBatchThen ==
  /\ pc = "returned"
  /\ mode = "batch"
  /\ results' = Append(results, result)
  /\ detected' = detected + Counted(result)
  /\ progress' = Append(progress, ProgressLine(i, Len(urls), result))
  /\ i' = i + 1
  /\ pc' = IF i + 1 <= Len(urls) THEN "call" ELSE "write"
  /\ DropCheckLocals
  /\ UNCHANGED <<argVars, urls, written, outFile, exitCode, uncaught>>

\* BatchExitCode deciding on detected manifests rather than on the count of valid ones
BatchExitCodeDetected == IF \E k \in DOMAIN results : results[k].detected THEN 0 ELSE 1

\* the exit code of index.ts 366
BatchExitCode == IF detected > 0 THEN 0 ELSE 1

\* index.ts 359-366: write the table and exit; writeFileSync throws when the file
\* cannot be written, nothing catches it and node ends the process with code 1
RunBatchFinish(writable) ==
  /\ pc = "write"
  /\ IF writable
     THEN /\ written' = TRUE
          /\ outFile' = resultsToCsv(results)
          /\ Exit(BatchExitCode)
          /\ UNCHANGED uncaught
     ELSE /\ uncaught' = "writeFileSync"
          /\ Exit(1)
          /\ UNCHANGED <<written, outFile>>
  /\ UNCHANGED <<argVars, urls, i, results, detected, progress, checkVars>>

Next ==
  \/ RunSingleStart
  \/ RunSingleThen
  \/ RunBatchStart
  \/ RunBatchThen
  \/ \E w \in BOOLEAN : RunBatchFinish(w)
  \/ CheckUrlBegin
  \/ Tick
  \/ \E resp \in Responses : FetchResolve(resp)
  \/ \E err \in {FetchFailed} : FetchReject(err)
  \/ FetchTimeout
  \/ JsonResolve
  \/ \E err \in {SyntaxErr, BodyErr} : JsonReject(err)
  \/ JsonTimeout

Spec == Init /\ [][Next]_vars

-----------------------------------------------------------------------------
(* A reader of quoted CSV, used to state what the written table contains.  *)
(* A quote at the start of a field opens a quoted field, in which "" is    *)
(* one quote and the next single quote closes it; outside quotes a comma   *)
(* ends the field and a row terminator ends the row.  rowEnds names the    *)
(* row terminators: {LF} is the separator resultsToCsv writes, {LF, CR}    *)
(* are the line breaks of standard CSV (CR LF counting as one).            *)

CsvStart == [at |-> "start", afterCR |-> FALSE, field |-> <<>>, row |-> <<>>, rows |-> <<>>]

EndField(st) ==
  [st EXCEPT !.at = "start", !.afterCR = FALSE, !.field = <<>>,
             !.row = Append(st.row, st.field)]
EndRow(st, c) ==
  [st EXCEPT !.at = "start", !.afterCR = (c = CR), !.field = <<>>, !.row = <<>>,
             !.rows = Append(st.rows, Append(st.row, st.field))]
Put(st, c, at) ==
  [st EXCEPT !.at = at, !.afterCR = FALSE, !.field = Append(st.field, c)]

\* a character outside quotes
Unquoted(st, c, rowEnds) ==
  IF c = COMMA THEN EndField(st)
  ELSE IF c \in rowEnds THEN EndRow(st, c)
  ELSE Put(st, c, "field")

\* the reader's step on one character; at: start of a field, inside an unquoted
\* field, inside quotes, or inside quotes just after a quote
CsvStep(st, c, rowEnds) ==
  IF st.afterCR /\ c = LF /\ LF \in rowEnds THEN [st EXCEPT !.afterCR = FALSE]
  ELSE IF st.at = "quoted"
       THEN IF c = QUOTE THEN [st EXCEPT !.at = "quote"] ELSE Put(st, c, "quoted")
  ELSE IF st.at = "quote"
       THEN IF c = QUOTE THEN Put(st, QUOTE, "quoted") ELSE Unquoted(st, c, rowEnds)
  ELSE IF st.at = "start" /\ c = QUOTE THEN [st EXCEPT !.at = "quoted", !.afterCR = FALSE]
  ELSE Unquoted(st, c, rowEnds)

RECURSIVE CsvScan(_, _, _, _, _)
\* the reader's state after text[lo..hi], read from state st
CsvScan(text, lo, hi, st, rowEnds) ==
  IF lo > hi THEN st
  ELSE IF lo = hi THEN CsvStep(st, text[lo], rowEnds)
  ELSE LET mid == (lo + hi) \div 2
       IN CHOOSE right \in {CsvScan(text, mid + 1, hi, left, rowEnds) :
                             left \in {CsvScan(text, lo, mid, st, rowEnds)}} : TRUE

\* the rows of a CSV text, each the sequence of its field values
ParseCsv(text, rowEnds) ==
  CHOOSE rows \in {IF st.at = "start" /\ st.row = <<>> THEN st.rows ELSE EndRow(st, LF).rows :
                    st \in {CsvScan(text, 1, Len(text), CsvStart, rowEnds)}} : TRUE

\* the seven field values of an outcome as a table row holds them
FieldValues(r) ==
  <<r.url, BoolText(r.detected), BoolText(r.valid), r.version, NumText(r.toolCount),
    r.toolNames, r.error>>

HeaderFields == <<<<"url">>, <<"detected">>, <<"valid">>, <<"version">>, <<"tool_count">>,
                  <<"tool_names">>, <<"error">>>>

\* the table `text` holds the header and exactly the outcomes rs, in order
TableHolds(text, rs, rowEnds) ==
  \E rows \in {ParseCsv(text, rowEnds)} :
     /\ Len(rows) = Len(rs) + 1
     /\ rows[1] = HeaderFields
     /\ \A k \in 1..Len(rs) : rows[k + 1] = FieldValues(rs[k])

-----------------------------------------------------------------------------
(* resultsToCsv on its own: any list of CheckResult records whose free-text *)
(* fields hold ordinary and special characters.                             *)

CsvAlphabet == {"a", COMMA, QUOTE, LF, CR}

CsvRecords ==
  {[url |-> t, detected |-> b, valid |-> b, version |-> e, toolCount |-> Len(t),
    toolNames |-> t, error |-> e] :
     t \in SeqsUpTo(CsvAlphabet, MaxFieldLen), e \in SeqsUpTo(CsvAlphabet, 1), b \in BOOLEAN}

CsvInit ==
  /\ mode = "csv"
  /\ input = NoText
  /\ file = NoFile
  /\ pc = "start"
  /\ urls = <<>>
  /\ i = 1
  /\ results \in SeqsUpTo(CsvRecords, MaxCsvRows)
  /\ detected = 0
  /\ origin = NoText
  /\ response = NoResponse
  /\ fetchErr = NoErr
  /\ jsonErr = NoErr
  /\ result = NoResult
  /\ elapsed = 0
  /\ inflight = 0
  /\ issued = [k \in 1..MaxUrls |-> 0]
  /\ progress = <<>>
  /\ written = FALSE
  /\ outFile = NoText
  /\ exitCode = -1
  /\ uncaught = "none"

\* index.ts 359: the table of the given results is produced
CsvWrite ==
  /\ mode = "csv"
  /\ pc = "start"
  /\ outFile' = resultsToCsv(results)
  /\ written' = TRUE
  /\ pc' = "exited"
  /\ UNCHANGED <<argVars, urls, i, results, detected, progress, checkVars, exitCode, uncaught>>

CsvNext == CsvWrite

CsvSpec == CsvInit /\ [][CsvNext]_vars

-----------------------------------------------------------------------------
(* parseCsvUrls on its own: any input text over header words, an ordinary  *)
(* word, and the characters the function treats specially.                 *)

MaxContentLen == 5    \* longest input file text given to parseCsvUrls alone

APOS == "'"

\* String.prototype.toLowerCase on one chunk of an input file
LowerWord(c) ==
  CASE c = "URL"    -> "url"
    [] c = "Domain" -> "domain"
    [] OTHER        -> c

\* String.prototype.toLowerCase
toLowerCase(t) == [k \in 1..Len(t) |-> LowerWord(t[k])]

\* the text before the first occurrence of sep, all of t when there is none
BeforeFirst(t, sep) ==
  IF \E k \in 1..Len(t) : t[k] = sep
  THEN SubSeq(t, 1, (CHOOSE k \in 1..Len(t) :
                       t[k] = sep /\ \A j \in 1..(k - 1) : t[j] # sep) - 1)
  ELSE t

\* the text after the first occurrence of sep, which t holds
AfterFirst(t, sep) == SubSeq(t, Len(BeforeFirst(t, sep)) + 2, Len(t))

RECURSIVE SplitLines(_)
\* content.split(/\r?\n/): a line ends at a line feed, and one carriage return
\* right before that line feed belongs to the separator
SplitLines(t) ==
  IF Includes(t, LF)
  THEN LET seg  == BeforeFirst(t, LF)
           line == IF seg # <<>> /\ seg[Len(seg)] = CR
                   THEN SubSeq(seg, 1, Len(seg) - 1) ELSE seg
       IN <<line>> \o SplitLines(AfterFirst(t, LF))
  ELSE <<t>>

\* filter((line) => line.trim())
NotBlank(line) == Trim(line) # <<>>

\* index.ts 240
FileLines(content) == SelectSeq(SplitLines(content), NotBlank)

\* index.ts 243-245: the whole first line, lower-cased and trimmed, is compared
HeaderStart(lines) ==
  IF lines # <<>> /\ Trim(toLowerCase(lines[1])) \in {<<"url">>, <<"domain">>, <<"website">>}
  THEN 1 ELSE 0

\* col.replace(/^["']|["']$/g, "")
StripQuotes(col) ==
  LET noLead == IF col # <<>> /\ col[1] \in {QUOTE, APOS} THEN Tail(col) ELSE col
  IN IF noLead # <<>> /\ noLead[Len(noLead)] \in {QUOTE, APOS}
     THEN SubSeq(noLead, 1, Len(noLead) - 1) ELSE noLead

\* index.ts 247-252: the callback of map
LineUrl(line) == StripQuotes(Trim(BeforeFirst(line, COMMA)))

\* index.ts 239-254
parseCsvUrls(content) ==
  LET lines == FileLines(content)
      start == HeaderStart(lines)
  IN [k \in 1..(Len(lines) - start) |-> LineUrl(lines[k + start])]

ContentAlphabet == {"url", "Domain", "a.com", COMMA, QUOTE, LF, CR, SP}

ParseInit ==
  /\ mode = "parse"
  /\ input = NoText
  /\ file \in {[readable |-> TRUE, content |-> t, urls |-> <<>>] :
                 t \in SeqsUpTo(ContentAlphabet, MaxContentLen)}
  /\ pc = "start"
  /\ urls = <<>>
  /\ i = 1
  /\ results = <<>>
  /\ detected = 0
  /\ origin = NoText
  /\ response = NoResponse
  /\ fetchErr = NoErr
  /\ jsonErr = NoErr
  /\ result = NoResult
  /\ elapsed = 0
  /\ inflight = 0
  /\ issued = [k \in 1..MaxUrls |-> 0]
  /\ progress = <<>>
  /\ written = FALSE
  /\ outFile = NoText
  /\ exitCode = -1
  /\ uncaught = "none"

\* index.ts 323: urls = parseCsvUrls(inputFile)
ParseRead ==
  /\ mode = "parse"
  /\ pc = "start"
  /\ urls' = parseCsvUrls(file.content)
  /\ pc' = "exited"
  /\ UNCHANGED <<argVars, i, results, detected, progress, written, outFile, checkVars,
                 exitCode, uncaught>>

ParseNext == ParseRead

ParseSpec == ParseInit /\ [][ParseNext]_vars

-----------------------------------------------------------------------------
(* Properties.                                                             *)

OutcomeFields == {"url", "detected", "valid", "version", "toolCount", "toolNames", "error"}

InCheck == pc \in {"call", "fetch", "json", "returned"}

\* C1: whatever the environment does, checkUrl ends in a CheckResult and nothing
\* it throws escapes; a batch is never stuck or aborted inside the loop, every
\* entry is checked, and the loop is left with one outcome per entry.
C1_NoFailureEscapes ==
  /\ uncaught \in {"none", "writeFileSync"}
  /\ pc = "returned" => DOMAIN result = OutcomeFields
  /\ pc # "exited" => ENABLED Next
  /\ mode = "batch" /\ InCheck => i <= Len(urls) /\ Len(results) = i - 1
  /\ mode = "batch" /\ pc = "write" => Len(results) = Len(urls)
  /\ mode = "batch" /\ pc = "exited" /\ file.readable /\ Len(file.urls) > 0 =>
       Len(results) = Len(file.urls)

\* a finished batch of three whose first two entries failed and whose third is valid
C1_Witness ==
  /\ mode = "batch" /\ pc = "exited" /\ Len(results) = 3
  /\ results[1].error = FetchFailed.message
  /\ results[2].error = <<"Invalid JSON">>
  /\ results[3].valid

WellFormed(r) ==
  /\ r.valid => r.detected
  /\ ~r.valid => r.version = NoText /\ r.toolCount = 0 /\ r.toolNames = NoText
  /\ r.valid => r.error = NoText
  /\ ~r.valid => r.error # NoText

\* C2: every CheckResult checkUrl returns, and every element of results, has
\* valid => detected; when not valid: empty version, toolCount 0, empty toolNames and
\* a non-empty error; when valid: an empty error.
C2_OutcomeInvariant ==
  /\ pc = "returned" => WellFormed(result)
  /\ \A k \in DOMAIN results : WellFormed(results[k])

\* results holds a valid outcome and a detected but invalid one
C2_Witness ==
  \E j, k \in DOMAIN results :
    /\ results[j].valid /\ results[j].toolCount > 0
    /\ results[k].detected /\ ~results[k].valid

Undetected(r, org, error) ==
  /\ r.url = org /\ ~r.detected /\ ~r.valid /\ r.error = error

C4_TimeoutIsNetworkError ==
  pc = "returned" /\ TimeoutErr \in {fetchErr, jsonErr} =>
    Undetected(result, origin, TimeoutErr.message)

\* the url an outcome of checking raw carries
UrlOf(raw) == IF UrlParses(raw) THEN normalizeUrl(raw) ELSE raw

C5_State ==
  mode = "batch" =>
    /\ Len(results) <= Len(urls)
    /\ Len(progress) = Len(results)
    /\ \A k \in DOMAIN results :
         /\ results[k].url = UrlOf(urls[k])
         /\ (results[k].error = <<"Invalid URL">>) <=> ~UrlParses(urls[k])
         /\ progress[k].idx = k /\ progress[k].url = results[k].url
    /\ \A k \in DOMAIN issued : issued[k] > 0 => k <= Len(results) + 1
    /\ written => Len(results) = Len(urls) /\ TableHolds(outFile, results, {LF})

C5_Step ==
  /\ Len(results') >= Len(results)
  /\ SubSeq(results', 1, Len(results)) = results
  /\ SubSeq(progress', 1, Len(progress)) = progress
  /\ results' # results =>
       /\ pc = "returned" /\ CurrentInput = urls[Len(results')]
       /\ results' = Append(results, result)
       /\ Len(progress') = Len(results')
  /\ issued' # issued => issued' = [issued EXCEPT ![Len(results) + 1] = @ + 1]

\* C5: a batch checks, reports and appends in input order: results is always the
\* outcomes of a prefix of urls, the k-th outcome being that of the k-th input; an
\* appended outcome is never changed or removed; the rows of the written table are
\* the outcomes in that order.
C5_InputOrder == []C5_State /\ [][C5_Step]_vars

\* a table written for three different inputs
C5_Witness ==
  /\ written
  /\ urls = <<RawBad, RawHttpPath, RawBare>>
  /\ results[1].url = RawBad
  /\ results[2].url = <<"http://", "example.com">>
  /\ results[3].url = <<"https://", "example.com">>
  /\ ParseCsv(outFile, {LF})[4][1] = <<"https://", "example.com">>

\* the raw strings of the run's entries
Entries == IF mode = "single" THEN <<input>> ELSE urls

\* the check of entry k has produced its outcome
Checked(k) ==
  IF mode = "single"
  THEN pc = "returned" \/ (pc = "exited" /\ UrlParses(input))
  ELSE k <= Len(results) \/ (k = i /\ pc = "returned")

\* C6: at most one request is in flight; the request of entry k+1 is issued only
\* after the outcome of entry k was appended; an entry whose check is over had
\* exactly one request if its origin normalizes and none otherwise, whatever the
\* request's outcome.
C6_OneRequestNoRetry ==
  /\ inflight \in {0, 1}
  /\ inflight = 1 <=> pc \in {"fetch", "json"}
  /\ \A k \in DOMAIN issued :
       /\ issued[k] <= 1
       /\ issued[k] > 0 => k <= Len(Entries) /\ (mode = "batch" => k <= Len(results) + 1)
  /\ \A k \in DOMAIN Entries :
       Checked(k) => issued[k] = IF UrlParses(Entries[k]) THEN 1 ELSE 0

\* the third request is pending after a failed first request and a second entry
\* that needed none
C6_Witness ==
  /\ mode = "batch" /\ pc = "fetch" /\ i = 3 /\ Len(results) = 2
  /\ results[1].error = FetchFailed.message
  /\ issued[1] = 1 /\ issued[2] = 0 /\ issued[3] = 1
  /\ inflight = 1

ValidCount == Cardinality({k \in DOMAIN results : results[k].valid})

\* the check in hand was served a valid 3-tool manifest
ServedThreeTools ==
  /\ pc = "returned"
  /\ response = [status |-> 200, body |-> [parses |-> TRUE, doc |-> Doc3]]
  /\ fetchErr = NoErr /\ jsonErr = NoErr

\* three entries were processed and only the third has the outcome of a valid
\* 3-tool manifest
C7_Scenario ==
  /\ mode = "batch" /\ pc = "exited" /\ written
  /\ Len(urls) = 3
  /\ \A k \in DOMAIN results : k < 3 => ~results[k].valid
  /\ Len(results) >= 3 /\ results[3].valid /\ results[3].toolCount = 3

\* C7: the count of runBatch is, after every entry, the number of valid outcomes in
\* results; for three entries of which only the third serves a valid 3-tool manifest
\* there are 3 outcomes, the count is 1 and the third row of the table has
\* detected=true, valid=true, tool_count=3.
C7_CountIsValidCount ==
  /\ mode = "batch" => detected = ValidCount
  /\ ServedThreeTools => result.valid /\ result.toolCount = 3
  /\ C7_Scenario =>
       \E rows \in {ParseCsv(outFile, {LF})} :
          /\ Len(results) = 3
          /\ detected = 1
          /\ Len(rows) = 4
          /\ rows[4][2] = <<"true">> /\ rows[4][3] = <<"true">> /\ rows[4][5] = <<"3">>

C7_Witness ==
  /\ C7_Scenario
  /\ results[2].detected
  /\ detected = 1

\* the run ended before any check: invalid single-mode origin, unreadable input
\* file, or an input file without origins
PreconditionFailure ==
  \/ mode = "single" /\ ~UrlParses(input)
  \/ mode = "batch" /\ (~file.readable \/ Len(file.urls) = 0)

\* at least one checked origin has a valid outcome
AnyValid ==
  IF mode = "single" THEN UrlParses(input) /\ result.valid
  ELSE \E k \in DOMAIN results : results[k].valid

NothingDone == (\A k \in DOMAIN issued : issued[k] = 0) /\ ~written /\ results = <<>>

\* C8 as stated: the exit code is 0 exactly when at least one outcome is valid, and
\* a precondition failure exits 1 with no request issued and no table written.
C8_ExitZeroIffAnyValid ==
  pc = "exited" =>
    /\ exitCode = 0 <=> AnyValid
    /\ exitCode # 0 => exitCode = 1
    /\ PreconditionFailure => exitCode = 1 /\ NothingDone

\* C8 amended: when the output table could be written (and always in single mode)
\* the exit code is 0 exactly when at least one outcome is valid and 1 otherwise;
\* when writing the table fails the exit code is 1 whatever the outcomes; a
\* precondition failure exits 1 with no request issued and no table written.
C8_ExitCodeUnlessWriteFails ==
  pc = "exited" =>
    /\ exitCode \in {0, 1}
    /\ uncaught = "none" => (exitCode = 0 <=> AnyValid)
    /\ uncaught # "none" => mode = "batch" /\ exitCode = 1 /\ ~written
    /\ mode = "batch" /\ ~PreconditionFailure => (written <=> uncaught = "none")
    /\ PreconditionFailure => exitCode = 1 /\ NothingDone /\ uncaught = "none"

\* a batch with a valid outcome whose table could not be written has exited 1
C8_Witness ==
  /\ mode = "batch" /\ pc = "exited"
  /\ AnyValid
  /\ uncaught = "writeFileSync"
  /\ exitCode = 1

AnyDetected == \E k \in DOMAIN results : results[k].detected

\* C9 as stated: a batch that wrote its table exits 0 whenever at least one outcome
\* has detected=true, also when no outcome is valid.
C9_BatchExitsZeroOnDetected ==
  mode = "batch" /\ pc = "exited" /\ written => (exitCode = 0 <=> AnyDetected)

\* C9 amended: batch and single mode use the same rule: a batch that wrote its table
\* exits 0 only if at least one outcome is valid, so a batch whose only detected
\* manifests are schema-invalid exits 1, as does a single run on such an origin.
C9_BatchNeedsValid ==
  /\ mode = "batch" /\ pc = "exited" /\ written =>
       /\ exitCode = (IF detected > 0 THEN 0 ELSE 1)
       /\ AnyDetected /\ ValidCount = 0 => exitCode = 1
  /\ mode = "single" /\ pc = "exited" /\ result.detected /\ ~result.valid => exitCode = 1

\* a written batch whose only detected manifest is schema-invalid has exited 1
C9_Witness ==
  /\ mode = "batch" /\ pc = "exited" /\ written
  /\ AnyDetected /\ ValidCount = 0
  /\ exitCode = 1

\* C10: the text resultsToCsv yields starts with the header, ends with a line break
\* and, read as standard quoted CSV, holds the header row and exactly the given
\* outcomes, seven fields each, in order and with their original values.
C10_CsvRoundTrip ==
  mode = "csv" /\ written =>
    /\ SubSeq(outFile, 1, Len(CsvHeader)) = CsvHeader
    /\ outFile[Len(outFile)] = LF
    /\ TableHolds(outFile, results, {LF, CR})

\* the first column of a line: the text before its first comma
FirstColumn(line) == BeforeFirst(line, COMMA)

\* a line is a header when its first column, trimmed and compared without regard
\* to case, is url, domain or website
IsHeaderLine(line) ==
  Trim(toLowerCase(FirstColumn(line))) \in {<<"url">>, <<"domain">>, <<"website">>}

\* the non-blank lines of the input that are not the skipped header
OriginLines(content) ==
  LET lines == FileLines(content)
  IN IF lines # <<>> /\ IsHeaderLine(lines[1]) THEN Tail(lines) ELSE lines

\* C11: the first non-blank line is skipped exactly when its first column, trimmed
\* and compared case-insensitively, is url, domain or website (further columns or
\* not); every other non-blank line yields one origin, its first column with the
\* surrounding quotes stripped, in file order.
C11_HeaderByFirstColumn ==
  mode = "parse" /\ pc = "exited" =>
    LET kept == OriginLines(file.content)
    IN /\ Len(urls) = Len(kept)
       /\ \A k \in 1..Len(kept) : urls[k] = StripQuotes(Trim(FirstColumn(kept[k])))

=============================================================================
